---- MODULE Spec2Model ----
(***************************************************************************)
(* Model of the Obsidian plugin "Copy Previous Day Note" (src/main.js,     *)
(* the current version of the class, lines 206-450).                       *)
(*                                                                         *)
(* Text is modelled as a sequence of one-character strings, so that the    *)
(* regular expressions, split/join and the tab expansion of the source are *)
(* computed character by character.                                        *)
(*                                                                         *)
(* Four specifications share the variables:                                *)
(*   SpecFilter    removeCompletedTasks, one action per loop iteration,    *)
(*                 applied to a text and then to its own output;           *)
(*   SpecPath      parseCustomFolderPath applied to a template and a date; *)
(*   Spec          the command callback (newCallback) against a vault,     *)
(*                 with the JavaScript run-to-completion scheduling;       *)
(*   SpecOverride  onload and the polling of overrideDailyNoteCommand,     *)
(*                 with the timers of setTimeout and weak fairness.        *)
(***************************************************************************)
EXTENDS Integers, Sequences, FiniteSets, TLC

VARIABLES
    \* ---- removeCompletedTasks (src/main.js:375-411)
    input,        \* the text first handed to removeCompletedTasks
    content,      \* the argument of the current call
    lines,        \* content.split('\n')
    i,            \* loop index (0-based, as in the source)
    result,       \* the array of retained lines
    skip,         \* the skip level
    level,        \* the level of the last non-blank line inspected
    fpc,          \* "off" | "start" | "loop" | "done"
    out,          \* the returned text
    pass,         \* 1: first application, 2: application to the first output
    firstOut,     \* the output of the first application
    fate,         \* history: per processed line, "emit" or "drop"
    skipBefore,   \* history: per processed line, skip when its iteration began
    \* ---- parseCustomFolderPath (src/main.js:325-346)
    folderPath,   \* the template argument
    date,         \* the date argument (a day number)
    resolved,     \* the returned path
    ppc,          \* "off" | "call" | "done"
    \* ---- the command callback (src/main.js:254-312) and the vault
    today,        \* moment(): the current day, a day number
    folder,       \* dailyNotesPlugin.instance.options.folder
    maxDays,      \* this.settings.maxDays
    files,        \* the notes of the vault: path -> content
    folders,      \* the folders of the vault: a set of paths
    running,      \* the invocation that holds the JavaScript thread, or "none"
    pc,           \* per invocation, its position in newCallback
    newFilePath,  \* per invocation, line 265
    idx,          \* per invocation, the loop variable i of line 281
    oldFile,      \* per invocation, the path of the file of line 287
    oldFileContent, \* per invocation, line 278 / 289
    found,        \* per invocation, line 279 / 291
    newFileContent, \* per invocation, line 296 / 300
    window,       \* history: per invocation, settings.maxDays as the loop read it
    destBefore,   \* history: per invocation, the destination as the call found it
    log,          \* history: per invocation, the calls made to the vault and workspace
    \* ---- onload and overrideDailyNoteCommand (src/main.js:217-323, 361-373)
    opc,          \* the position of onload
    hasDailyNotes, \* internalPlugins.getPluginById('daily-notes') is not null
    command,      \* app.commands.commands['daily-notes']: "absent", or its callback
    button,       \* the ribbon button: "absent", or its click listener
    pollTimer,    \* ms until the timer of line 247 is due, -1: no such timer
    rebindTimer,  \* ms until the timer of line 319 is due, -1: no such timer
    polls,        \* history: the runs of checkCommandExists that found no command
    installs,     \* history: the executions of line 314
    rebinds       \* history: the timers set at line 319

fvars == <<input, content, lines, i, result, skip, level, fpc, out, pass, firstOut,
           fate, skipBefore>>
pvars == <<folderPath, date, resolved, ppc>>
cvars == <<today, folder, maxDays, files, folders, running, pc, newFilePath,
           idx, oldFile, oldFileContent, found, newFileContent, window,
           destBefore, log>>
ovars == <<opc, hasDailyNotes, command, button, pollTimer, rebindTimer, polls,
           installs, rebinds>>
vars == <<fvars, pvars, cvars, ovars>>

(***************************************************************************)
(* Bounds.                                                                 *)
(***************************************************************************)
MaxLines == 3
\* the largest value of settings.maxDays in the model (the slider allows 30)
MaxLookback == 3

(***************************************************************************)
(* Characters and strings.                                                 *)
(*                                                                         *)
(* Where an operator reads an argument many times, the argument is first   *)
(* bound by a singleton set ({e(v) : v \in {arg}}), so that it is evaluated *)
(* once; the value is the same as that of e(arg).                          *)
(***************************************************************************)
\* the element of a singleton set
The(S) == CHOOSE r \in S : TRUE

SP == " "
TAB == "\t"
NL == "\n"

\* \s of the regular expressions and the whitespace of String.trim, on the
\* characters of the model.
IsWhite(c) == c \in {SP, TAB}

\* line.trim() == ''
IsBlank(line) == \A k \in 1..Len(line) : IsWhite(line[k])

RECURSIVE ReplaceTabs(_)
\* line.replace(/\t/g, '   ')
ReplaceTabs(line) ==
    The({ IF v = <<>> THEN <<>>
          ELSE (IF Head(v) = TAB THEN <<SP, SP, SP>> ELSE <<Head(v)>>)
               \o ReplaceTabs(Tail(v)) : v \in {line} })

RECURSIVE SearchNonWhite(_, _)
\* s.search(/\S/): the 0-based index of the first non-whitespace character
\* at or after 1-based position k, -1 when there is none.
SearchNonWhite(s, k) ==
    The({ IF k > Len(v) THEN -1
          ELSE IF ~IsWhite(v[k]) THEN k - 1
          ELSE SearchNonWhite(v, k + 1) : v \in {s} })

\* line.replace(/\t/g, '   ').search(/\S/) + 1
LevelOfMutant(line) == SearchNonWhite(line, 1) + 1
LevelOf(line) == SearchNonWhite(ReplaceTabs(line), 1) + 1

\* taskRegex = /^\s*[-\*]\s\[x\]/ tested on the line as it is in the input:
\* the marker can only follow all of the leading whitespace.
TaskRegexMutant(line) ==
    LET k == SearchNonWhite(line, 1) IN
        /\ k >= 0
        /\ Len(line) >= k + 5
        /\ line[k + 1] \in {"-", "*"}
        /\ IsWhite(line[k + 2])
        /\ line[k + 3] = "["
        /\ line[k + 4] \in {"x", "X"}
        /\ line[k + 5] = "]"
TaskRegex(line) ==
    LET k == SearchNonWhite(line, 1) IN
        /\ k >= 0
        /\ Len(line) >= k + 5
        /\ line[k + 1] \in {"-", "*"}
        /\ IsWhite(line[k + 2])
        /\ line[k + 3] = "["
        /\ line[k + 4] = "x"
        /\ line[k + 5] = "]"

RECURSIVE Split(_, _)
\* s.split(sep) for a one-character separator: always at least one piece.
Split(s, sep) ==
    The({ IF \A k \in 1..Len(v) : v[k] # sep THEN <<v>>
          ELSE The({ <<SubSeq(v, 1, p - 1)>> \o Split(SubSeq(v, p + 1, Len(v)), sep) :
                     p \in {k \in 1..Len(v) :
                               v[k] = sep /\ \A j \in 1..(k - 1) : v[j] # sep} })
          : v \in {s} })

RECURSIVE Join(_, _)
\* pieces.join(sep): the empty array joins to the empty string.
Join(pieces, sep) ==
    The({ IF v = <<>> THEN <<>>
          ELSE IF Len(v) = 1 THEN v[1]
          ELSE v[1] \o <<sep>> \o Join(Tail(v), sep) : v \in {pieces} })

(***************************************************************************)
(* removeCompletedTasks: the decisions of one loop iteration.              *)
(***************************************************************************)
\* line 393-395: if (skip == 0 || level < skip) skip = level
SkipAfterTaskMutant(sk, lv) == IF sk = 0 THEN lv ELSE sk
SkipAfterTask(sk, lv) == IF sk = 0 \/ lv < sk THEN lv ELSE sk

\* lines 384-387: a blank line is pushed and the loop continues; skip is not
\* assigned
SkipAfterBlankMutant(sk) == sk - sk
SkipAfterBlank(sk) == sk

\* line 400: if (skip > 0 && level > skip)
IsNestedMutant(sk, lv) == sk > 0 /\ lv >= sk
IsNested(sk, lv) == sk > 0 /\ lv > sk

\* line 407: result.push(line), the line as it is in the input
PushedMutant(line) == ReplaceTabs(line)
Pushed(line) == line

\* line 410: return result.join('\n')
ReturnedMutant(res) == Join(res, NL) \o <<NL>>
Returned(res) == Join(res, NL)

RECURSIVE FilterLines(_, _, _)
\* lines 382-408 as a function of the lines: the retained lines of ls from
\* 1-based position k on, entered with skip level sk.
FilterLines(ls, k, sk) ==
    The({ IF k > Len(v) THEN <<>>
          ELSE LET line == v[k]
                   lv == LevelOf(line)
               IN IF IsBlank(line)
                  THEN <<line>> \o FilterLines(v, k + 1, SkipAfterBlank(sk))
                  ELSE IF TaskRegex(line)
                       THEN FilterLines(v, k + 1, SkipAfterTask(sk, lv))
                  ELSE IF IsNested(sk, lv) THEN FilterLines(v, k + 1, sk)
                  ELSE <<Pushed(line)>> \o FilterLines(v, k + 1, 0)
          : v \in {ls} })

RECURSIVE Decisions(_, _, _)
\* lines 382-408 as a function of the lines: for each line of ls from
\* 1-based position k on, entered with skip level sk, whether the line is
\* pushed or not and the skip level its iteration leaves.
Decisions(ls, k, sk) ==
    The({ IF k > Len(v) THEN <<>>
          ELSE LET line == v[k]
                   lv == LevelOf(line)
               IN IF IsBlank(line)
                  THEN <<[fate |-> "emit", skip |-> SkipAfterBlank(sk)]>>
                       \o Decisions(v, k + 1, SkipAfterBlank(sk))
                  ELSE IF TaskRegex(line)
                       THEN <<[fate |-> "drop", skip |-> SkipAfterTask(sk, lv)]>>
                            \o Decisions(v, k + 1, SkipAfterTask(sk, lv))
                  ELSE IF IsNested(sk, lv)
                       THEN <<[fate |-> "drop", skip |-> sk]>>
                            \o Decisions(v, k + 1, sk)
                  ELSE <<[fate |-> "emit", skip |-> 0]>> \o Decisions(v, k + 1, 0)
          : v \in {ls} })

\* lines 375-411 as a function of the text (used by the command callback)
removeCompletedTasks(c) == Returned(FilterLines(Split(c, NL), 1, 0))

(***************************************************************************)
(* Input texts of SpecFilter: every text of 1..MaxLines lines over the     *)
(* line shapes, and a few longer texts written out.                        *)
(***************************************************************************)
Indents == { <<>>, <<SP, SP>>, <<TAB>> }

Bodies == { <<"-", SP, "[", "x", "]", SP, "t">>,
            <<"*", SP, "[", "x", "]">>,
            <<"-", SP, "[", "X", "]", SP, "d", "o", "n", "e">>,
            <<"a">> }

BlankLines == { <<>>, <<TAB>> }

LineShapes == BlankLines \cup { ind \o b : ind \in Indents, b \in Bodies }

\* The six-line example of the specification and its expected output.
ExampleLines ==
    << <<"-", SP, "[", "x", "]", SP, "d", "o", "n", "e", SP, "t", "o", "p">>,
       <<SP, SP, "-", SP, "c", "h", "i", "l", "d", SP, "A">>,
       <<"-", SP, "[", SP, "]", SP, "o", "p", "e", "n">>,
       <<SP, SP, "-", SP, "[", "x", "]", SP, "d", "o", "n", "e", SP,
         "n", "e", "s", "t", "e", "d">>,
       <<SP, SP, SP, SP, "-", SP, "g", "r", "a", "n", "d", "c", "h", "i", "l", "d">>,
       <<"-", SP, "s", "i", "b", "l", "i", "n", "g">> >>
Example == Join(ExampleLines, NL)
ExampleOut == Join(<<ExampleLines[3], ExampleLines[6]>>, NL)

\* A marker separated from the checkbox by a tab, and a marker with no
\* separator at all.
TabMarkerLine == <<"-", TAB, "[", "x", "]">>
\* a completed task indented with one tab, and with three spaces
TabTaskLine == <<TAB, "-", SP, "[", "x", "]", SP, "x">>
SpaceTaskLine == <<SP, SP, SP, "-", SP, "[", "x", "]", SP, "x">>
NoSepLine == <<"-", "[", "x", "]">>

ExtraTexts ==
    { Example,
      TabTaskLine,
      SpaceTaskLine,
      Join(<<TabTaskLine, <<TAB, TAB, "z">>, <<SP, SP, SP, "y">>, <<SP, "w">>>>, NL),
      Join(<<TabMarkerLine, <<SP, "c">>, <<"b">>>>, NL),
      Join(<<NoSepLine, <<SP, "c">>, <<TAB, "-", SP, "[", "x", "]">>, <<TAB, SP, "e">>>>, NL) }

Texts ==
    { Join(ls, NL) : ls \in UNION { [1..n -> LineShapes] : n \in 1..MaxLines } }
    \cup ExtraTexts

(***************************************************************************)
(* removeCompletedTasks, one action per path through the loop body.        *)
(***************************************************************************)
\* lines 376-379
RCT_Start ==
    /\ fpc = "start"
    /\ lines' = Split(content, NL)
    /\ result' = <<>>
    /\ skip' = 0
    /\ level' = 0
    /\ i' = 0
    /\ fate' = <<>>
    /\ skipBefore' = <<>>
    /\ fpc' = "loop"
    /\ UNCHANGED <<input, content, out, pass, firstOut, pvars, cvars, ovars>>

\* lines 383-387: a blank line is pushed as it is
RCT_Blank ==
    /\ fpc = "loop"
    /\ i < Len(lines)
    /\ IsBlank(lines[i + 1])
    /\ result' = Append(result, lines[i + 1])
    /\ i' = i + 1
    /\ skip' = SkipAfterBlank(skip)
    /\ fate' = Append(fate, "emit")
    /\ skipBefore' = Append(skipBefore, skip)
    /\ UNCHANGED <<input, content, lines, level, fpc, out, pass, firstOut, pvars, cvars, ovars>>

\* lines 389-398: a completed task
RCT_Task ==
    /\ fpc = "loop"
    /\ i < Len(lines)
    /\ ~IsBlank(lines[i + 1])
    /\ level' = LevelOf(lines[i + 1])
    /\ TaskRegex(lines[i + 1])
    /\ skip' = SkipAfterTask(skip, level')
    /\ i' = i + 1
    /\ fate' = Append(fate, "drop")
    /\ skipBefore' = Append(skipBefore, skip)
    /\ UNCHANGED <<input, content, lines, result, fpc, out, pass, firstOut, pvars, cvars, ovars>>

\* lines 389-402: a line nested under the suppressed task
RCT_Nested ==
    /\ fpc = "loop"
    /\ i < Len(lines)
    /\ ~IsBlank(lines[i + 1])
    /\ level' = LevelOf(lines[i + 1])
    /\ ~TaskRegex(lines[i + 1])
    /\ IsNested(skip, level')
    /\ i' = i + 1
    /\ fate' = Append(fate, "drop")
    /\ skipBefore' = Append(skipBefore, skip)
    /\ UNCHANGED <<input, content, lines, result, skip, fpc, out, pass, firstOut, pvars, cvars, ovars>>

\* lines 389-407: any other line ends the suppression and is pushed
RCT_Emit ==
    /\ fpc = "loop"
    /\ i < Len(lines)
    /\ ~IsBlank(lines[i + 1])
    /\ level' = LevelOf(lines[i + 1])
    /\ ~TaskRegex(lines[i + 1])
    /\ ~IsNested(skip, level')
    /\ skip' = 0
    /\ result' = Append(result, Pushed(lines[i + 1]))
    /\ i' = i + 1
    /\ fate' = Append(fate, "emit")
    /\ skipBefore' = Append(skipBefore, skip)
    /\ UNCHANGED <<input, content, lines, fpc, out, pass, firstOut, pvars, cvars, ovars>>

\* line 410
RCT_Return ==
    /\ fpc = "loop"
    /\ i = Len(lines)
    /\ out' = Returned(result)
    /\ fpc' = "done"
    /\ UNCHANGED <<input, content, lines, i, result, skip, level, pass, firstOut,
                   fate, skipBefore, pvars, cvars, ovars>>

\* The returned text is handed to removeCompletedTasks again.
Reapply ==
    /\ fpc = "done"
    /\ pass = 1
    /\ firstOut' = out
    /\ content' = out
    /\ pass' = 2
    /\ fpc' = "start"
    /\ UNCHANGED <<input, lines, i, result, skip, level, out, fate, skipBefore, pvars, cvars, ovars>>

PathOff ==
    /\ folderPath = <<>>
    /\ date = 0
    /\ resolved = <<>>
    /\ ppc = "off"

CallbackOff ==
    /\ today = 0
    /\ folder = <<>>
    /\ maxDays = 0
    /\ files = <<>>
    /\ folders = {}
    /\ running = "none"
    /\ pc = <<>>
    /\ newFilePath = <<>>
    /\ idx = <<>>
    /\ oldFile = <<>>
    /\ oldFileContent = <<>>
    /\ found = <<>>
    /\ newFileContent = <<>>
    /\ window = <<>>
    /\ destBefore = <<>>
    /\ log = <<>>

OverrideOff ==
    /\ opc = "off"
    /\ hasDailyNotes = FALSE
    /\ command = "absent"
    /\ button = "absent"
    /\ pollTimer = -1
    /\ rebindTimer = -1
    /\ polls = 0
    /\ installs = 0
    /\ rebinds = 0

InitFilter ==
    /\ input \in Texts
    /\ content = input
    /\ lines = <<>>
    /\ i = 0
    /\ result = <<>>
    /\ skip = 0
    /\ level = 0
    /\ fpc = "start"
    /\ out = <<>>
    /\ pass = 1
    /\ firstOut = <<>>
    /\ fate = <<>>
    /\ skipBefore = <<>>
    /\ PathOff
    /\ CallbackOff
    /\ OverrideOff

NextFilter ==
    \/ RCT_Start
    \/ RCT_Blank
    \/ RCT_Task
    \/ RCT_Nested
    \/ RCT_Emit
    \/ RCT_Return
    \/ Reapply

SpecFilter == InitFilter /\ [][NextFilter]_vars

(***************************************************************************)
(* Vocabulary of the claims about removeCompletedTasks, stated on the text *)
(* and independently of the definitions above.                             *)
(***************************************************************************)
\* optional leading whitespace, '-' or '*', one whitespace, '[x]'
CompletedTaskLine(line) ==
    \E n \in 0..Len(line) :
        /\ \A k \in 1..n : line[k] \in {SP, TAB}
        /\ Len(line) >= n + 5
        /\ line[n + 1] \in {"-", "*"}
        /\ line[n + 2] \in {SP, TAB}
        /\ SubSeq(line, n + 3, n + 5) = <<"[", "x", "]">>

\* the number of leading whitespace characters of a line
LeadingWhite(line) ==
    IF \A k \in 1..Len(line) : line[k] \in {SP, TAB} THEN Len(line)
    ELSE (CHOOSE k \in 1..Len(line) :
              line[k] \notin {SP, TAB} /\ \A j \in 1..(k - 1) : line[j] \in {SP, TAB}) - 1

\* Indent Level: the 1-based column of the first non-whitespace character,
\* a tab counting for three columns.
IndentLevel(line) ==
    LET n == LeadingWhite(line)
        tabs == Cardinality({k \in 1..n : line[k] = TAB})
    IN (n - tabs) + 3 * tabs + 1

BlankLine(line) == LeadingWhite(line) = Len(line)

\* the lines of a text, the empty text having none
LinesOf(text) == IF text = <<>> THEN <<>> ELSE Split(text, NL)

RECURSIVE IsSubsequence(_, _)
IsSubsequence(a, b) ==
    IF a = <<>> THEN TRUE
    ELSE IF b = <<>> THEN FALSE
    ELSE IF Head(a) = Head(b) THEN IsSubsequence(Tail(a), Tail(b))
    ELSE IsSubsequence(a, Tail(b))

UpperLine == <<"-", SP, "[", "X", "]", SP, "d", "o", "n", "e">>

(***************************************************************************)
(* C1. Every completed Task Line is dropped; a non-blank line that is not  *)
(* a completed task is dropped exactly when skip > 0 and its level is      *)
(* strictly greater than skip, and is emitted otherwise; every dropped     *)
(* line that is not a completed task is indented strictly deeper than a    *)
(* completed Task Line that precedes it with no emitted non-blank line in  *)
(* between; and the six-line example yields '- [ ] open', '- sibling'.     *)
(***************************************************************************)
C1_DropRule ==
    /\ \A j \in 1..Len(fate) :
          LET line == lines[j]
              lv == IndentLevel(line)
              sk == skipBefore[j]
          IN ~BlankLine(line) =>
                /\ CompletedTaskLine(line) => fate[j] = "drop"
                /\ ~CompletedTaskLine(line) =>
                      (fate[j] = "drop" <=> (sk > 0 /\ lv > sk))
                /\ (fate[j] = "drop" /\ ~CompletedTaskLine(line)) =>
                      \E k \in 1..(j - 1) :
                          /\ CompletedTaskLine(lines[k])
                          /\ lv > IndentLevel(lines[k])
                          /\ \A m \in (k + 1)..(j - 1) :
                                fate[m] = "emit" => BlankLine(lines[m])
    /\ (content = Example /\ fpc = "done") => out = ExampleOut

\* The example has been filtered: its child lines were dropped.
C1_Witness ==
    /\ content = Example
    /\ pass = 1
    /\ fpc = "done"
    /\ fate = <<"drop", "drop", "emit", "drop", "drop", "emit">>

(***************************************************************************)
(* C2. Idempotence: removeCompletedTasks applied to its own output returns *)
(* that output.                                                            *)
(***************************************************************************)
C2_Idempotent == (fpc = "done" /\ pass = 2) => out = firstOut

\* A second application has finished on an output from which the first
\* application had removed lines and in which it had left at least two.
C2_Witness ==
    /\ fpc = "done"
    /\ pass = 2
    /\ firstOut # input
    /\ content = firstOut
    /\ Len(lines) >= 2
    /\ out = firstOut

(***************************************************************************)
(* C3. The lines of the output are a subsequence of the lines of the       *)
(* input, in order, and none of them is a completed Task Line.             *)
(***************************************************************************)
C3_Subsequence ==
    fpc = "done" =>
        /\ IsSubsequence(LinesOf(out), LinesOf(content))
        /\ \A k \in 1..Len(LinesOf(out)) : ~CompletedTaskLine(LinesOf(out)[k])

\* A first application has finished, having dropped a line and retained a
\* line that holds a tab.
C3_Witness ==
    /\ fpc = "done"
    /\ pass = 1
    /\ \E j \in 1..Len(fate) : fate[j] = "drop"
    /\ \E k \in 1..Len(result) : ~BlankLine(result[k]) /\ \E c \in 1..Len(result[k]) : result[k][c] = TAB

(***************************************************************************)
(* C4. Every retained non-blank line is in the output with each tab        *)
(* replaced by three spaces: no retained non-blank line holds a tab.       *)
(***************************************************************************)
C4_TabsExpanded ==
    fpc = "done" =>
        \A k \in 1..Len(result) :
            ~BlankLine(result[k]) => \A c \in 1..Len(result[k]) : result[k][c] # TAB

(***************************************************************************)
(* C5. An unindented line '- [X] done' is never removed: it is emitted     *)
(* verbatim, it leaves skip at 0, and the line after it, when it is not    *)
(* itself a completed task, is retained.                                   *)
(***************************************************************************)
C5_UppercaseKept ==
    \A j \in 1..Len(fate) :
        lines[j] = UpperLine =>
            /\ fate[j] = "emit"
            /\ j = Len(fate) => (skip = 0 /\ result # <<>> /\ result[Len(result)] = UpperLine)
            /\ j < Len(fate) =>
                  /\ skipBefore[j + 1] = 0
                  /\ ~CompletedTaskLine(lines[j + 1]) => fate[j + 1] = "emit"

\* '- [X] done' follows a dropped completed task and is followed by a deeper
\* line, which is retained.
C5_Witness ==
    \E j \in 2..(Len(fate) - 1) :
        /\ lines[j] = UpperLine
        /\ CompletedTaskLine(lines[j - 1])
        /\ fate[j - 1] = "drop"
        /\ IndentLevel(lines[j + 1]) > 1
        /\ ~BlankLine(lines[j + 1])
        /\ fate[j + 1] = "emit"

(***************************************************************************)
(* Dates. A date is a day number, day 0 being Sunday 2023-01-01; the       *)
(* calendar fields are computed from it (proleptic Gregorian calendar).    *)
(***************************************************************************)
IsLeap(y) == (y % 4 = 0 /\ y % 100 # 0) \/ y % 400 = 0
DaysInYear(y) == IF IsLeap(y) THEN 366 ELSE 365
DaysInMonth(y, m) ==
    IF m = 2 THEN (IF IsLeap(y) THEN 29 ELSE 28)
    ELSE IF m \in {4, 6, 9, 11} THEN 30 ELSE 31

RECURSIVE YearFrom(_, _)
\* <<year, day of the year (0-based)>> of day number n counted from 1 Jan of y
YearFrom(n, y) ==
    IF n < DaysInYear(y) THEN <<y, n>> ELSE YearFrom(n - DaysInYear(y), y + 1)

RECURSIVE MonthFrom(_, _, _)
\* <<month, day of the month>> of the 0-based day n of year y, from month m
MonthFrom(n, y, m) ==
    IF n < DaysInMonth(y, m) THEN <<m, n + 1>>
    ELSE MonthFrom(n - DaysInMonth(y, m), y, m + 1)

YearOf(d) == YearFrom(d, 2023)[1]
MonthOf(d) == MonthFrom(YearFrom(d, 2023)[2], YearOf(d), 1)[1]
DayOf(d) == MonthFrom(YearFrom(d, 2023)[2], YearOf(d), 1)[2]
WeekdayOf(d) == d % 7

DigitChars == <<"0", "1", "2", "3", "4", "5", "6", "7", "8", "9">>

RECURSIVE Decimal(_)
\* the decimal digits of a natural number, no padding
Decimal(n) ==
    IF n < 10 THEN <<DigitChars[n + 1]>>
    ELSE Decimal(n \div 10) \o <<DigitChars[(n % 10) + 1]>>

RECURSIVE PadZero(_, _)
PadZero(s, w) == IF Len(s) >= w THEN s ELSE PadZero(<<"0">> \o s, w)

MonthNames ==
    << <<"J", "a", "n", "u", "a", "r", "y">>,
       <<"F", "e", "b", "r", "u", "a", "r", "y">>,
       <<"M", "a", "r", "c", "h">>,
       <<"A", "p", "r", "i", "l">>,
       <<"M", "a", "y">>,
       <<"J", "u", "n", "e">>,
       <<"J", "u", "l", "y">>,
       <<"A", "u", "g", "u", "s", "t">>,
       <<"S", "e", "p", "t", "e", "m", "b", "e", "r">>,
       <<"O", "c", "t", "o", "b", "e", "r">>,
       <<"N", "o", "v", "e", "m", "b", "e", "r">>,
       <<"D", "e", "c", "e", "m", "b", "e", "r">> >>

WeekdayNames ==
    << <<"S", "u", "n", "d", "a", "y">>,
       <<"M", "o", "n", "d", "a", "y">>,
       <<"T", "u", "e", "s", "d", "a", "y">>,
       <<"W", "e", "d", "n", "e", "s", "d", "a", "y">>,
       <<"T", "h", "u", "r", "s", "d", "a", "y">>,
       <<"F", "r", "i", "d", "a", "y">>,
       <<"S", "a", "t", "u", "r", "d", "a", "y">> >>

\* date.format(token) of moment.js for the tokens of dateTokens
MomentFormat(d, token) ==
    IF token = <<"Y", "Y", "Y", "Y">> THEN PadZero(Decimal(YearOf(d)), 4)
    ELSE IF token = <<"Y", "Y">> THEN PadZero(Decimal(YearOf(d) % 100), 2)
    ELSE IF token = <<"M", "M">> THEN PadZero(Decimal(MonthOf(d)), 2)
    ELSE IF token = <<"M">> THEN Decimal(MonthOf(d))
    ELSE IF token = <<"D", "D">> THEN PadZero(Decimal(DayOf(d)), 2)
    ELSE IF token = <<"D">> THEN Decimal(DayOf(d))
    ELSE IF token = <<"d", "d", "d">> THEN SubSeq(WeekdayNames[WeekdayOf(d) + 1], 1, 3)
    ELSE IF token = <<"d", "d", "d", "d">> THEN WeekdayNames[WeekdayOf(d) + 1]
    ELSE IF token = <<"M", "M", "M", "M">> THEN MonthNames[MonthOf(d)]
    ELSE IF token = <<"M", "M", "M">> THEN SubSeq(MonthNames[MonthOf(d)], 1, 3)
    ELSE token

\* 2024-03-05 as a day number: the days of 2023, of January and of
\* February 2024, and four days of March
Day_2024_03_05 == 365 + 31 + 29 + 4

(***************************************************************************)
(* parseCustomFolderPath (src/main.js:325-346).                            *)
(***************************************************************************)
\* line 328, in the order of the array, which is the order of the
\* alternatives of the regular expression of line 338
dateTokensMutant ==
    << <<"Y", "Y">>,
       <<"Y", "Y", "Y", "Y">>,
       <<"M">>,
       <<"M", "M">>,
       <<"D", "D">>,
       <<"D">>,
       <<"d", "d", "d">>,
       <<"d", "d", "d", "d">>,
       <<"M", "M", "M", "M">>,
       <<"M", "M", "M">> >>
dateTokens ==
    << <<"Y", "Y", "Y", "Y">>,
       <<"Y", "Y">>,
       <<"M", "M">>,
       <<"M">>,
       <<"D", "D">>,
       <<"D">>,
       <<"d", "d", "d">>,
       <<"d", "d", "d", "d">>,
       <<"M", "M", "M", "M">>,
       <<"M", "M", "M">> >>

\* the token is found in s at 1-based position p
TokenAt(s, p, token) ==
    /\ p + Len(token) - 1 <= Len(s)
    /\ SubSeq(s, p, p + Len(token) - 1) = token

\* segment.includes(token)
Includes(segment, token) ==
    \E p \in 1..Len(segment) : TokenAt(segment, p, token)

\* new RegExp(dateTokens.join('|')) tried at position p: the index of the
\* first alternative, in the order written, that matches there; 0 for none
AlternativeAt(segment, p) ==
    IF \E t \in 1..Len(dateTokens) : TokenAt(segment, p, dateTokens[t])
    THEN CHOOSE t \in 1..Len(dateTokens) :
             /\ TokenAt(segment, p, dateTokens[t])
             /\ \A u \in 1..(t - 1) : ~TokenAt(segment, p, dateTokens[u])
    ELSE 0

RECURSIVE ReplaceTokens(_, _, _)
\* segment.replace(new RegExp(..., 'g'), match => date.format(match)), from
\* position p on: matches are found left to right and do not overlap
ReplaceTokens(segment, p, d) ==
    The({ IF p > Len(v) THEN <<>>
          ELSE The({ IF t = 0 THEN <<v[p]>> \o ReplaceTokens(v, p + 1, d)
                     ELSE MomentFormat(d, dateTokens[t])
                          \o ReplaceTokens(v, p + Len(dateTokens[t]), d)
                     : t \in {AlternativeAt(v, p)} })
          : v \in {segment} })

\* lines 334-342: the callback of segments.map
ProcessSegment(segment, d) ==
    The({ IF \E t \in 1..Len(dateTokens) : Includes(v, dateTokens[t])
          THEN ReplaceTokens(v, 1, d)
          ELSE v : v \in {segment} })

\* lines 325-346: split on '/', map every segment, join with '/'
parseCustomFolderPathMutant(fp, d) ==
    IF fp = <<>> THEN <<>>
    ELSE The({ LET processedSegments ==
                       [k \in 1..Len(segments) |-> ProcessSegment(segments[k], d)]
               IN Join(processedSegments, "/")
               : segments \in {SelectSeq(Split(fp, "/"), LAMBDA g : g # <<>>)} })
parseCustomFolderPath(fp, d) ==
    IF fp = <<>> THEN <<>>
    ELSE The({ LET processedSegments ==
                       [k \in 1..Len(segments) |-> ProcessSegment(segments[k], d)]
               IN Join(processedSegments, "/") : segments \in {Split(fp, "/")} })

(***************************************************************************)
(* Inputs of SpecPath.                                                     *)
(***************************************************************************)
MaxDay == 800

Dates == 0..MaxDay

SingleTokens ==
    { <<"Y", "Y", "Y", "Y">>,
      <<"Y", "Y">>,
      <<"M", "M">>,
      <<"M">>,
      <<"D", "D">>,
      <<"D">>,
      <<"d", "d", "d">>,
      <<"d", "d", "d", "d">>,
      <<"M", "M", "M", "M">>,
      <<"M", "M", "M">> }

Templates ==
    SingleTokens \cup
    { <<>>,
      <<"Y", "Y", "Y", "Y", "-", "M", "M">>,
      <<"j", "o", "u", "r", "n", "a", "l">>,
      <<"j", "o", "u", "r", "n", "a", "l", "/", "Y", "Y", "Y", "Y">>,
      <<"Y", "Y", "Y", "Y", "/", "M", "M", "/", "D", "D">>,
      <<"n", "o", "t", "e", "s", "/", "Y", "Y", "Y", "Y", "-", "M", "M", "-", "D", "D">>,
      <<"D", "a", "i", "l", "y">>,
      <<"Y", "Y", "/", "M", "/", "D">>,
      <<"a", "/", "/", "b">>,
      <<"M", "M", "M", "M", " ", "Y", "Y", "Y", "Y">>,
      <<"d", "d", "d", "d", " ", "D", "D">> }

\* line 326: an unset or empty template
PCF_Empty ==
    /\ ppc = "call"
    /\ folderPath = <<>>
    /\ resolved' = parseCustomFolderPath(folderPath, date)
    /\ ppc' = "done"
    /\ UNCHANGED <<folderPath, date, fvars, cvars, ovars>>

\* lines 328-345
PCF_Segments ==
    /\ ppc = "call"
    /\ folderPath # <<>>
    /\ resolved' = parseCustomFolderPath(folderPath, date)
    /\ ppc' = "done"
    /\ UNCHANGED <<folderPath, date, fvars, cvars, ovars>>

FilterOff ==
    /\ input = <<>>
    /\ content = <<>>
    /\ lines = <<>>
    /\ i = 0
    /\ result = <<>>
    /\ skip = 0
    /\ level = 0
    /\ fpc = "off"
    /\ out = <<>>
    /\ pass = 0
    /\ firstOut = <<>>
    /\ fate = <<>>
    /\ skipBefore = <<>>

InitPath ==
    /\ folderPath \in Templates
    /\ date \in Dates
    /\ resolved = <<>>
    /\ ppc = "call"
    /\ FilterOff
    /\ CallbackOff
    /\ OverrideOff

NextPath == PCF_Empty \/ PCF_Segments

SpecPath == InitPath /\ [][NextPath]_vars

(***************************************************************************)
(* C6. A path segment that consists of one Date Token resolves to the      *)
(* value moment.js formats for that token, for every token of the list.    *)
(***************************************************************************)
C6_LongestMatch ==
    (ppc = "done" /\ folderPath \in SingleTokens) =>
        resolved = MomentFormat(date, folderPath)

(***************************************************************************)
(* C7. The template 'YYYY-MM' resolves to the four-digit year, a hyphen    *)
(* and the two-digit month of the date; 2024-03-05 gives '2024-03'.        *)
(***************************************************************************)
C7_YearMonth ==
    (ppc = "done" /\ folderPath = <<"Y", "Y", "Y", "Y", "-", "M", "M">>) =>
        /\ Len(resolved) = 7
        /\ resolved = PadZero(Decimal(YearOf(date)), 4) \o <<"-">>
                      \o PadZero(Decimal(MonthOf(date)), 2)
        /\ date = Day_2024_03_05 => resolved = <<"2", "0", "2", "4", "-", "0", "3">>

\* 'YYYY-MM' has been resolved for 2024-03-05.
C7_Witness ==
    /\ ppc = "done"
    /\ folderPath = <<"Y", "Y", "Y", "Y", "-", "M", "M">>
    /\ date = Day_2024_03_05
    /\ resolved = <<"2", "0", "2", "4", "-", "0", "3">>

(***************************************************************************)
(* The command callback, newCallback (src/main.js:254-312), against the    *)
(* vault.  The callback is bound to the command and to the daily-note      *)
(* button (lines 314, 368); each binding is invoked at most once here.     *)
(* JavaScript runs an invocation to its next await before anything else    *)
(* runs: `running` names the invocation that holds the thread, and an      *)
(* awaited vault call completes only when the thread is free.  The day     *)
(* does not change while the model runs.                                   *)
(***************************************************************************)
Procs == {"command", "button"}

\* the days the model takes for moment()
Day_2024_01_02 == 365 + 1
Day_2024_03_01 == 365 + 31 + 29
Todays == {Day_2024_01_02, Day_2024_03_01}

\* the values of options.folder in the model
Folders ==
    { <<>>,
      <<"j", "o", "u", "r", "n", "a", "l", "/">>,
      <<"Y", "Y", "Y", "Y", "/", "M", "M">>,
      <<"n", "o", "t", "e", "s", "/", "Y", "Y", "Y", "Y", "-", "M", "M">> }

\* options.format, the file-name format of the daily notes: 'YYYY-MM-DD'
FormatDate(d) ==
    MomentFormat(d, <<"Y", "Y", "Y", "Y">>) \o <<"-">> \o MomentFormat(d, <<"M", "M">>)
    \o <<"-">> \o MomentFormat(d, <<"D", "D">>)

\* normalizePath of the obsidian API: runs of '/' collapse to one, leading
\* and trailing '/' are removed
normalizePath(path) ==
    The({ Join(SelectSeq(pieces, LAMBDA x : x # <<>>), "/") :
          pieces \in {Split(path, "/")} })

\* lines 263-265 and 283-285: the path of the note of day d under the
\* folder template f
NotePathOf(f, d) ==
    LET fileName == FormatDate(d) \o <<".", "m", "d">>
        dirName == parseCustomFolderPath(f, d)
    IN normalizePath(dirName \o <<"/">> \o fileName)

\* NotePathOf, tabulated over the templates and the days the model reaches
PathTable ==
    [f \in Folders, d \in {t + j : t \in Todays,
                                  j \in (0 - MaxLookback - 1)..MaxLookback} |->
        NotePathOf(f, d)]

\* the path of the note of day d under options.folder
NotePath(d) == PathTable[folder, d]

\* line 350: filePath.split('/').slice(0, -1).join('/')
DirPath(filePath) ==
    The({ Join(SubSeq(parts, 1, Len(parts) - 1), "/") :
          parts \in {Split(filePath, "/")} })

\* a folder path and the folders above it (vault.createFolder makes them all)
Ancestors(dir) ==
    The({ IF parts = <<<<>>>> THEN {}
          ELSE {Join(SubSeq(parts, 1, n), "/") : n \in 1..Len(parts)} :
          parts \in {Split(dir, "/")} })

\* vault.getAbstractFileByPath(path) returns a file or a folder
Exists(path) == path \in DOMAIN files \/ path \in folders

\* line 281: i <= this.settings.maxDays
InWindowMutant(k, md) == k <= md + 1
InWindow(k, md) == k <= md

\* line 282: moment().subtract(i, 'days')
PreviousDateMutant(now, k) == now - k - 1
PreviousDate(now, k) == now - k

\* lines 291-292: found = true; break
AfterHitMutant(k) == [pc |-> "loop", idx |-> k + 1]
AfterHit(k) == [pc |-> "afterLoop", idx |-> k]

\* the content of the note that exists k days back: a completed task, its
\* child, and a line that names k
NoteContent(k) ==
    Join(<< <<"-", " ", "[", "x", "]", " ", "d">>, <<" ", " ", "c">>, <<"n", DigitChars[k + 1]>> >>, NL)

\* an entry of the log: the call, its path argument and the source line
\* of the call
Call(op, path, line) == [op |-> op, path |-> path, line |-> line]

\* the notes in the vault at the start: those of the days today - k, k in ns
VaultOf(ns) ==
    The({ [path \in {np[k] : k \in ns} |->
              NoteContent(CHOOSE k \in ns : np[k] = path)] :
          np \in {[k \in ns |-> NotePath(today - k)]} })

Init ==
    /\ today \in Todays
    /\ folder \in Folders
    /\ maxDays \in 1..MaxLookback
    /\ \E ns \in SUBSET (0..(MaxLookback + 1)) :
          /\ files = VaultOf(ns)
          /\ folders = UNION {Ancestors(DirPath(NotePath(today - k))) : k \in ns}
    /\ running = "none"
    /\ pc = [p \in Procs |-> "idle"]
    /\ newFilePath = [p \in Procs |-> <<>>]
    /\ idx = [p \in Procs |-> 0]
    /\ oldFile = [p \in Procs |-> <<>>]
    /\ oldFileContent = [p \in Procs |-> <<>>]
    /\ found = [p \in Procs |-> FALSE]
    /\ newFileContent = [p \in Procs |-> <<>>]
    /\ window = [p \in Procs |-> 0]
    /\ destBefore = [p \in Procs |-> [exists |-> FALSE, content |-> <<>>]]
    /\ log = [p \in Procs |-> <<>>]
    /\ FilterOff
    /\ PathOff
    /\ OverrideOff

\* lines 255-269 and 349-355: the callback up to its first await.  When the
\* folder of the note is missing, vault.createFolder is called and awaited;
\* otherwise the invocation keeps the thread.
Invoke(p) ==
    /\ running = "none"
    /\ pc[p] = "idle"
    /\ LET path == NotePath(today)
           dirPath == DirPath(path)
       IN /\ newFilePath' = [newFilePath EXCEPT ![p] = path]
          /\ destBefore' = [destBefore EXCEPT ![p] =
                 [exists |-> Exists(path),
                  content |-> IF path \in DOMAIN files THEN files[path] ELSE <<>>]]
          /\ IF dirPath # <<>> /\ ~Exists(dirPath)
             THEN /\ log' = [log EXCEPT ![p] = @ \o
                        <<Call("getAbstractFileByPath", dirPath, 353),
                          Call("createFolder", dirPath, 355)>>]
                  /\ pc' = [pc EXCEPT ![p] = "awaitCreateFolder"]
                  /\ running' = "none"
             ELSE /\ log' = [log EXCEPT ![p] = @ \o
                        (IF dirPath # <<>>
                         THEN <<Call("getAbstractFileByPath", dirPath, 353)>>
                         ELSE <<>>)]
                  /\ pc' = [pc EXCEPT ![p] = "checkExisting"]
                  /\ running' = p
    /\ UNCHANGED <<today, folder, maxDays, files, folders, idx, oldFile,
                   oldFileContent, found, newFileContent, window, fvars, pvars, ovars>>

\* line 355: vault.createFolder succeeds
CreateFolderOk(p) ==
    /\ running = "none"
    /\ pc[p] = "awaitCreateFolder"
    /\ ~Exists(DirPath(newFilePath[p]))
    /\ folders' = folders \cup Ancestors(DirPath(newFilePath[p]))
    /\ pc' = [pc EXCEPT ![p] = "checkExisting"]
    /\ running' = p
    /\ UNCHANGED <<destBefore, today, folder, maxDays, files, newFilePath, idx, oldFile,
                   oldFileContent, found, newFileContent, window, log, fvars, pvars, ovars>>

\* line 355: vault.createFolder throws (the folder exists by now, or the
\* storage fails); nothing catches it and the callback's promise rejects
CreateFolderFail(p) ==
    /\ running = "none"
    /\ pc[p] = "awaitCreateFolder"
    /\ pc' = [pc EXCEPT ![p] = "rejected"]
    /\ UNCHANGED <<destBefore, today, folder, maxDays, files, folders, running, newFilePath,
                   idx, oldFile, oldFileContent, found, newFileContent, window,
                   log, fvars, pvars, ovars>>

\* lines 271-272: existingFile, the vault's entry at the destination, is
\* truthy when a note or a folder is there
ExistingFileMutant(path) == path \in folders
ExistingFile(path) == Exists(path)

\* lines 271-279: the destination exists: open it and return; otherwise
\* enter the loop
CheckExisting(p) ==
    /\ running = p
    /\ pc[p] = "checkExisting"
    /\ IF ExistingFile(newFilePath[p])
       THEN /\ log' = [log EXCEPT ![p] = @ \o
                  <<Call("getAbstractFileByPath", newFilePath[p], 271),
                    Call("openLinkText", newFilePath[p], 274)>>]
            /\ pc' = [pc EXCEPT ![p] = "done"]
            /\ running' = "none"
            /\ UNCHANGED <<idx, found, oldFileContent>>
       ELSE /\ log' = [log EXCEPT ![p] = @ \o
                  <<Call("getAbstractFileByPath", newFilePath[p], 271)>>]
            /\ pc' = [pc EXCEPT ![p] = "loop"]
            /\ idx' = [idx EXCEPT ![p] = 1]
            /\ found' = [found EXCEPT ![p] = FALSE]
            /\ oldFileContent' = [oldFileContent EXCEPT ![p] = <<>>]
            /\ UNCHANGED running
    /\ UNCHANGED <<destBefore, today, folder, maxDays, files, folders, newFilePath, oldFile,
                   newFileContent, window, fvars, pvars, ovars>>

\* line 281: the loop condition fails
LoopExit(p) ==
    /\ running = p
    /\ pc[p] = "loop"
    /\ ~InWindow(idx[p], maxDays)
    /\ window' = [window EXCEPT ![p] = maxDays]
    /\ pc' = [pc EXCEPT ![p] = "afterLoop"]
    /\ UNCHANGED <<destBefore, today, folder, maxDays, files, folders, running, newFilePath,
                   idx, oldFile, oldFileContent, found, newFileContent, log,
                   fvars, pvars, ovars>>

\* lines 281-288, 294: no note for the candidate day
LoopMiss(p) ==
    /\ running = p
    /\ pc[p] = "loop"
    /\ InWindow(idx[p], maxDays)
    /\ LET oldFilePath == NotePath(PreviousDate(today, idx[p]))
       IN /\ ~Exists(oldFilePath)
          /\ log' = [log EXCEPT ![p] = @ \o
                <<Call("getAbstractFileByPath", oldFilePath, 287)>>]
    /\ window' = [window EXCEPT ![p] = maxDays]
    /\ idx' = [idx EXCEPT ![p] = @ + 1]
    /\ UNCHANGED <<destBefore, today, folder, maxDays, files, folders, running, pc,
                   newFilePath, oldFile, oldFileContent, found, newFileContent,
                   fvars, pvars, ovars>>

\* lines 281-289: the candidate exists; vault.read is called and awaited
LoopHit(p) ==
    /\ running = p
    /\ pc[p] = "loop"
    /\ InWindow(idx[p], maxDays)
    /\ LET oldFilePath == NotePath(PreviousDate(today, idx[p]))
       IN /\ Exists(oldFilePath)
          /\ log' = [log EXCEPT ![p] = @ \o
                <<Call("getAbstractFileByPath", oldFilePath, 287),
                  Call("read", oldFilePath, 289)>>]
          /\ oldFile' = [oldFile EXCEPT ![p] = oldFilePath]
    /\ window' = [window EXCEPT ![p] = maxDays]
    /\ pc' = [pc EXCEPT ![p] = "awaitRead"]
    /\ running' = "none"
    /\ UNCHANGED <<destBefore, today, folder, maxDays, files, folders, newFilePath, idx,
                   oldFileContent, found, newFileContent, fvars, pvars, ovars>>

\* lines 289-292: vault.read returns the content; found = true; break
ReadOk(p) ==
    /\ running = "none"
    /\ pc[p] = "awaitRead"
    /\ oldFile[p] \in DOMAIN files
    /\ oldFileContent' = [oldFileContent EXCEPT ![p] = files[oldFile[p]]]
    /\ found' = [found EXCEPT ![p] = TRUE]
    /\ pc' = [pc EXCEPT ![p] = AfterHit(idx[p]).pc]
    /\ idx' = [idx EXCEPT ![p] = AfterHit(idx[p]).idx]
    /\ running' = p
    /\ UNCHANGED <<destBefore, today, folder, maxDays, files, folders, newFilePath, oldFile,
                   newFileContent, window, log, fvars, pvars, ovars>>

\* line 289: vault.read throws; nothing catches it and the promise rejects
ReadFail(p) ==
    /\ running = "none"
    /\ pc[p] = "awaitRead"
    /\ pc' = [pc EXCEPT ![p] = "rejected"]
    /\ UNCHANGED <<destBefore, today, folder, maxDays, files, folders, running, newFilePath,
                   idx, oldFile, oldFileContent, found, newFileContent, window,
                   log, fvars, pvars, ovars>>

\* lines 296-305: the content of the new note; vault.create is called and
\* awaited
AfterLoop(p) ==
    /\ running = p
    /\ pc[p] = "afterLoop"
    /\ LET text == IF found[p] THEN removeCompletedTasks(oldFileContent[p])
                   ELSE <<>>
       IN /\ newFileContent' = [newFileContent EXCEPT ![p] = text]
          /\ log' = [log EXCEPT ![p] = @ \o
                (IF found[p]
                 THEN <<Call("removeCompletedTasks", oldFile[p], 300)>>
                 ELSE <<>>) \o
                <<Call("create", newFilePath[p], 305)>>]
    /\ pc' = [pc EXCEPT ![p] = "awaitCreate"]
    /\ running' = "none"
    /\ UNCHANGED <<destBefore, today, folder, maxDays, files, folders, newFilePath, idx,
                   oldFile, oldFileContent, found, window, fvars, pvars, ovars>>

\* lines 305-307: vault.create succeeds and the new note is opened
CreateOk(p) ==
    /\ running = "none"
    /\ pc[p] = "awaitCreate"
    /\ ~Exists(newFilePath[p])
    /\ files' = [path \in DOMAIN files \cup {newFilePath[p]} |->
                    IF path = newFilePath[p] THEN newFileContent[p]
                    ELSE files[path]]
    /\ log' = [log EXCEPT ![p] = @ \o <<Call("openLinkText", newFilePath[p], 307)>>]
    /\ pc' = [pc EXCEPT ![p] = "done"]
    /\ UNCHANGED <<destBefore, today, folder, maxDays, folders, running, newFilePath, idx,
                   oldFile, oldFileContent, found, newFileContent, window,
                   fvars, pvars, ovars>>

\* lines 305, 308-311: vault.create throws (the note exists by now, or the
\* storage fails); the catch block logs and the callback returns normally
CreateFail(p) ==
    /\ running = "none"
    /\ pc[p] = "awaitCreate"
    /\ log' = [log EXCEPT ![p] = @ \o <<Call("catch", newFilePath[p], 308)>>]
    /\ pc' = [pc EXCEPT ![p] = "done"]
    /\ UNCHANGED <<destBefore, today, folder, maxDays, files, folders, running, newFilePath,
                   idx, oldFile, oldFileContent, found, newFileContent, window,
                   fvars, pvars, ovars>>

\* lines 443-449: the slider of the settings tab changes settings.maxDays
SetMaxDays(v) ==
    /\ running = "none"
    /\ v # maxDays
    /\ maxDays' = v
    /\ UNCHANGED <<destBefore, today, folder, files, folders, running, pc, newFilePath, idx,
                   oldFile, oldFileContent, found, newFileContent, window, log,
                   fvars, pvars, ovars>>

Next ==
    \/ \E p \in Procs : Invoke(p)
    \/ \E p \in Procs : CreateFolderOk(p)
    \/ \E p \in Procs : CreateFolderFail(p)
    \/ \E p \in Procs : CheckExisting(p)
    \/ \E p \in Procs : LoopExit(p)
    \/ \E p \in Procs : LoopMiss(p)
    \/ \E p \in Procs : LoopHit(p)
    \/ \E p \in Procs : ReadOk(p)
    \/ \E p \in Procs : ReadFail(p)
    \/ \E p \in Procs : AfterLoop(p)
    \/ \E p \in Procs : CreateOk(p)
    \/ \E p \in Procs : CreateFail(p)
    \/ \E v \in 1..MaxLookback : SetMaxDays(v)

Spec == Init /\ [][Next]_vars

(***************************************************************************)
(* Vocabulary of the claims about the lookback.                            *)
(***************************************************************************)
\* the offsets 1..w at which a note exists
ExistingBack(w) == {k \in 1..w : NotePath(today - k) \in DOMAIN files}

Least(S) == CHOOSE x \in S : \A y \in S : x <= y

\* the positions in the log of invocation p of the calls made at a line
CallsAt(p, line) == {k \in 1..Len(log[p]) : log[p][k].line = line}

\* what removeCompletedTasks leaves of the note k days back
FilteredNote(k) == <<"n", DigitChars[k + 1]>>

(***************************************************************************)
(* C8. Nearest wins: when an invocation calls vault.create and a note      *)
(* exists for some offset 1..maxDays, the content was read from the note   *)
(* of the smallest such offset, and the note created holds it, filtered.   *)
(***************************************************************************)
C8_NearestWins ==
    \A p \in Procs :
        (CallsAt(p, 305) # {} /\ ExistingBack(window[p]) # {}) =>
            LET m == Least(ExistingBack(window[p])) IN
                /\ found[p]
                /\ oldFile[p] = NotePath(today - m)
                /\ oldFileContent[p] = NoteContent(m)
                /\ newFileContent[p] = FilteredNote(m)
                /\ CallsAt(p, 307) # {} =>
                      files[newFilePath[p]] = FilteredNote(m)

\* Notes exist two and three days back and not one day back, maxDays is 3,
\* and the invocation has created today's note from the note two days back.
C8_Witness ==
    \E p \in Procs :
        /\ window[p] = 3
        /\ ExistingBack(3) = {2, 3}
        /\ pc[p] = "done"
        /\ CallsAt(p, 307) # {}
        /\ files[newFilePath[p]] = FilteredNote(2)

(***************************************************************************)
(* C9. The lookback queries existence (line 287) only for the notes of the *)
(* days today - i, 1 <= i <= maxDays: never for today, a later day or a    *)
(* day further back; and when no note exists in the window nothing is      *)
(* read and the search ends with found = false, whatever exists at         *)
(* today - (maxDays + 1).                                                  *)
(***************************************************************************)
C9_WindowRespected ==
    \A p \in Procs :
        /\ \A k \in CallsAt(p, 287) :
              /\ \E j \in 1..window[p] : log[p][k].path = NotePath(today - j)
              /\ \A j \in 0..MaxLookback : log[p][k].path # NotePath(today + j)
              /\ log[p][k].path # NotePath(today - (window[p] + 1))
        /\ (window[p] > 0 /\ pc[p] \in {"afterLoop", "awaitCreate", "done"}
            /\ ExistingBack(window[p]) = {}) =>
              /\ ~found[p]
              /\ CallsAt(p, 289) = {}
              /\ Cardinality(CallsAt(p, 287)) = window[p]
              /\ CallsAt(p, 305) # {} => newFileContent[p] = <<>>

\* With maxDays = 3, no note in the last three days and a note four days
\* back, the loop has ended without a hit after three queries.
C9_Witness ==
    \E p \in Procs :
        /\ window[p] = 3
        /\ pc[p] = "afterLoop"
        /\ ExistingBack(3) = {}
        /\ NotePath(today - 4) \in DOMAIN files
        /\ Cardinality(CallsAt(p, 287)) = 3
        /\ ~found[p]

(***************************************************************************)
(* C10. The lookback stops at the first hit: an invocation calls           *)
(* vault.read at most once, and after that call it queries no further      *)
(* candidate and the loop variable stays at the offset of the hit.         *)
(***************************************************************************)
C10_FirstHitStops ==
    \A p \in Procs :
        /\ Cardinality(CallsAt(p, 289)) <= 1
        /\ \A k \in CallsAt(p, 289) :
              /\ \A j \in CallsAt(p, 287) : j < k
              /\ log[p][k].path = NotePath(today - idx[p])
              /\ pc[p] \in {"awaitRead", "rejected", "afterLoop", "awaitCreate", "done"}

\* A note was read and vault.create called while a note further back in the
\* window exists and was never queried.
C10_Witness ==
    \E p \in Procs :
        /\ found[p]
        /\ pc[p] = "awaitCreate"
        /\ Cardinality(CallsAt(p, 289)) = 1
        /\ \E j \in (idx[p] + 1)..window[p] :
              /\ NotePath(today - j) \in DOMAIN files
              /\ \A k \in CallsAt(p, 287) : log[p][k].path # NotePath(today - j)

(***************************************************************************)
(* Claims about the destination and about failures.                        *)
(***************************************************************************)

\* the last call an invocation made
LastCall(p) == log[p][Len(log[p])]

\* C11: an invocation that finds today's note in the vault writes nothing:
\* it calls neither vault.createFolder nor vault.create, the note keeps the
\* content it had, and once the invocation is over its last call is the
\* opening of the existing note.  So a second run after a first one that
\* created the note leaves the note as the first run wrote it.
C11_ExistingOnlyOpened ==
    \A p \in Procs :
        (pc[p] # "idle" /\ destBefore[p].exists) =>
            /\ CallsAt(p, 355) = {}
            /\ CallsAt(p, 305) = {}
            /\ CallsAt(p, 289) = {}
            /\ newFilePath[p] \in DOMAIN files =>
                   files[newFilePath[p]] = destBefore[p].content
            /\ pc[p] \in {"checkExisting", "done"}
            /\ pc[p] = "done" =>
                   LastCall(p) = Call("openLinkText", newFilePath[p], 274)
            /\ \A q \in Procs \ {p} :
                   CallsAt(q, 307) # {} =>
                       files[newFilePath[p]] = newFileContent[q]

\* the command created today's note from an earlier one, and the button,
\* used after that, found the note and opened it
C11_Witness ==
    /\ pc["command"] = "done"
    /\ CallsAt("command", 307) # {}
    /\ newFileContent["command"] # <<>>
    /\ pc["button"] = "done"
    /\ destBefore["button"].exists
    /\ destBefore["button"].content = newFileContent["command"]
    /\ files[newFilePath["button"]] = newFileContent["command"]
    /\ LastCall("button") = Call("openLinkText", newFilePath["button"], 274)

\* C12: with an empty daily-note folder the callback stops before it touches
\* the vault: no invocation makes any call to it, so no note is created.
C12_EmptyFolderAborts ==
    folder = <<>> =>
        \A p \in Procs : log[p] = <<>>

\* vault.createFolder threw in the invocation: the call of line 355 is its
\* last one and its promise is rejected
CreateFolderFailed(p) ==
    /\ pc[p] = "rejected"
    /\ log[p] # <<>>
    /\ LastCall(p).line = 355

\* vault.create threw in the invocation: the catch block of line 308 ran
CreateFailed(p) == CallsAt(p, 308) # {}

\* C13: an invocation in which vault.createFolder or vault.create failed
\* ends as a failure (its promise is rejected), called each of the two at
\* most once, and created no note.
C13_FailureSurfaced ==
    \A p \in Procs :
        (CreateFolderFailed(p) \/ CreateFailed(p)) =>
            /\ pc[p] = "rejected"
            /\ Cardinality(CallsAt(p, 355)) <= 1
            /\ Cardinality(CallsAt(p, 305)) <= 1
            /\ CallsAt(p, 307) = {}

\* C14: an invocation that found neither today's note nor any note in its
\* window does not fail: it never applies removeCompletedTasks, it calls
\* vault.create once, for today's path and with the empty text, and when
\* that call succeeds today's note is empty and the invocation's last call
\* opens it.
C14_EmptyNoteWhenNoneFound ==
    \A p \in Procs :
        (/\ ~destBefore[p].exists
         /\ window[p] > 0
         /\ ExistingBack(window[p]) = {}
         /\ pc[p] \in {"afterLoop", "awaitCreate", "done"}) =>
            /\ ~found[p]
            /\ CallsAt(p, 289) = {}
            /\ CallsAt(p, 300) = {}
            /\ pc[p] \in {"awaitCreate", "done"} =>
                  /\ Cardinality(CallsAt(p, 305)) = 1
                  /\ \A k \in CallsAt(p, 305) : log[p][k].path = NotePath(today)
                  /\ newFileContent[p] = <<>>
            /\ (pc[p] = "done" /\ ~CreateFailed(p)) =>
                  /\ NotePath(today) \in DOMAIN files
                  /\ files[NotePath(today)] = <<>>
                  /\ LastCall(p) = Call("openLinkText", NotePath(today), 307)

\* the vault held no note at all; the command looked back three days, then
\* created today's note empty and opened it
C14_Witness ==
    /\ pc["command"] = "done"
    /\ ~destBefore["command"].exists
    /\ window["command"] = 3
    /\ ExistingBack(3) = {}
    /\ Cardinality(CallsAt("command", 287)) = 3
    /\ DOMAIN files = {NotePath(today)}
    /\ files[NotePath(today)] = <<>>
    /\ LastCall("command") = Call("openLinkText", NotePath(today), 307)

\* the invocations whose call of the given line is made and not yet settled
InFlight(where) == {p \in Procs : pc[p] = where}

\* C19: of two overlapping invocations only one passes the check of the
\* destination: vault.create is never in flight for both at once, nor is
\* vault.createFolder, and so at most one of them ever calls either.
C19_NoDoubleCreate ==
    /\ Cardinality(InFlight("awaitCreate")) <= 1
    /\ Cardinality(InFlight("awaitCreateFolder")) <= 1
    /\ Cardinality({p \in Procs : CallsAt(p, 305) # {}}) <= 1
    /\ Cardinality({p \in Procs : CallsAt(p, 355) # {}}) <= 1

(***************************************************************************)
(* Claims about the skip level, blank lines and tabs (removeCompletedTasks)*)
(***************************************************************************)

\* the skip level after the first j lines were processed
SkipAfter(j) ==
    IF j = 0 THEN 0
    ELSE IF j = Len(fate) THEN skip
    ELSE skipBefore[j + 1]

Greatest(S) == CHOOSE x \in S : \A y \in S : y <= x

\* the completed Task Lines among the first j lines that came after skip
\* was last 0
TasksSinceZero(j) ==
    LET z == Greatest({m \in 0..j : SkipAfter(m) = 0})
    IN {m \in (z + 1)..j : CompletedTaskLine(lines[m])}

\* C15: after any prefix of the lines, skip is 0 when no completed Task
\* Line was matched since skip was last 0, and is otherwise the least
\* Indent Level of the completed Task Lines matched since then.
C15_SkipIsMinimum ==
    fpc \in {"loop", "done"} =>
        \A j \in 0..Len(fate) :
            IF TasksSinceZero(j) = {} THEN SkipAfter(j) = 0
            ELSE SkipAfter(j) =
                    Least({IndentLevel(lines[m]) : m \in TasksSinceZero(j)})

\* a completed task shallower than the skip level lowered it
C15_Witness ==
    /\ fpc = "done"
    /\ \E j \in 1..Len(fate) :
          /\ CompletedTaskLine(lines[j])
          /\ skipBefore[j] > 0
          /\ IndentLevel(lines[j]) < skipBefore[j]
          /\ SkipAfter(j) = IndentLevel(lines[j])
          /\ Cardinality(TasksSinceZero(j)) >= 2

RECURSIVE EmittedLines(_)
\* the lines among the first k processed ones whose fate is "emit"
EmittedLines(k) ==
    IF k = 0 THEN <<>>
    ELSE EmittedLines(k - 1) \o (IF fate[k] = "emit" THEN <<lines[k]>> ELSE <<>>)

\* the non-blank lines of a sequence of lines
NonBlank(ls) == SelectSeq(ls, LAMBDA l : ~BlankLine(l))

\* the processed non-blank lines, each with its fate
NonBlankFates ==
    SelectSeq([k \in 1..Len(fate) |-> <<lines[k], fate[k]>>],
              LAMBDA pr : ~BlankLine(pr[1]))

\* C16: a blank line is pushed as it is, whatever the skip level, and
\* leaves the skip level as it was; and the non-blank lines have the fates
\* they have when the text is filtered with its blank lines deleted.
C16_BlankLinesTransparent ==
    fpc \in {"loop", "done"} =>
        /\ \A k \in 1..Len(fate) :
              BlankLine(lines[k]) =>
                  /\ fate[k] = "emit"
                  /\ SkipAfter(k) = skipBefore[k]
        /\ result = EmittedLines(Len(fate))
        /\ fpc = "done" =>
              \A d \in {Decisions(NonBlank(lines), 1, 0)} :
                  NonBlankFates =
                      [k \in 1..Len(d) |-> <<NonBlank(lines)[k], d[k].fate>>]

\* a blank line met while skipping was pushed, and the line after it was
\* still dropped as nested
C16_Witness ==
    /\ fpc = "done"
    /\ \E k \in 1..(Len(fate) - 1) :
          /\ BlankLine(lines[k])
          /\ skipBefore[k] > 0
          /\ fate[k] = "emit"
          /\ ~BlankLine(lines[k + 1])
          /\ ~CompletedTaskLine(lines[k + 1])
          /\ fate[k + 1] = "drop"
    /\ \E k \in 1..Len(result) : result[k] = <<TAB>>

RECURSIVE TabsAsSpaces(_)
\* a run of whitespace with each tab replaced by three spaces
TabsAsSpaces(w) ==
    IF w = <<>> THEN <<>>
    ELSE (IF Head(w) = TAB THEN <<SP, SP, SP>> ELSE <<Head(w)>>)
         \o TabsAsSpaces(Tail(w))

\* a line with the tabs of its leading whitespace replaced by three spaces
LeadingTabsReplaced(line) ==
    TabsAsSpaces(SubSeq(line, 1, LeadingWhite(line)))
        \o SubSeq(line, LeadingWhite(line) + 1, Len(line))

\* the lines, with the leading tabs of the lines at the positions S replaced
LinesReplacedAt(S) ==
    [k \in 1..Len(lines) |->
        IF k \in S THEN LeadingTabsReplaced(lines[k]) ELSE lines[k]]

\* C17: replacing the leading tabs of one line, or of all lines, by three
\* spaces each changes neither the fate of any line nor the skip level after
\* any line; and the lines '\t- [x] x' and '   - [x] x' are dropped and,
\* met with no shallower skip level, set the skip level 4.
C17_TabsCountThree ==
    fpc = "done" =>
        /\ \A S \in {{k} : k \in 1..Len(lines)} \cup {1..Len(lines)} :
              \A d \in {Decisions(LinesReplacedAt(S), 1, 0)} :
                  \A k \in 1..Len(lines) :
                      /\ d[k].fate = fate[k]
                      /\ d[k].skip = SkipAfter(k)
        /\ \A k \in 1..Len(lines) :
              lines[k] \in {TabTaskLine, SpaceTaskLine} =>
                  /\ fate[k] = "drop"
                  /\ (skipBefore[k] = 0 \/ skipBefore[k] >= 4) => SkipAfter(k) = 4

\* the task indented with a tab was dropped and set the skip level 4; the
\* line under it, indented with two tabs, was dropped and the one indented
\* with three spaces was kept
C17_Witness ==
    /\ fpc = "done"
    /\ pass = 1
    /\ Len(lines) = 4
    /\ lines[1] = TabTaskLine
    /\ lines[2] = <<TAB, TAB, "z">>
    /\ fate = <<"drop", "drop", "emit", "emit">>
    /\ SkipAfter(1) = 4

(***************************************************************************)
(* Claim about the segments of the folder template (parseCustomFolderPath).*)
(***************************************************************************)

\* the ten Date Tokens, as the claim lists them
DateTokenSet ==
    { <<"Y", "Y", "Y", "Y">>, <<"Y", "Y">>, <<"M", "M", "M", "M">>,
      <<"M", "M", "M">>, <<"M", "M">>, <<"M">>, <<"D", "D">>, <<"D">>,
      <<"d", "d", "d", "d">>, <<"d", "d", "d">> }

\* no Date Token is a substring of the segment
TokenFree(segment) ==
    \A tok \in DateTokenSet :
        \A k \in 1..Len(segment) :
            k + Len(tok) - 1 <= Len(segment) =>
                SubSeq(segment, k, k + Len(tok) - 1) # tok

\* C18: the resolved path has as many '/'-separated segments as the
\* template, and every segment of the template that contains no Date Token
\* is, at its position, the same in the resolved path, whatever the date.
C18_SegmentsKept ==
    ppc = "done" =>
        \A ts \in {Split(folderPath, "/")} :
            \A rs \in {Split(resolved, "/")} :
                /\ Len(rs) = Len(ts)
                /\ \A k \in 1..Len(ts) : TokenFree(ts[k]) => rs[k] = ts[k]

\* 'journal/YYYY' on 2024-03-05: 'journal' is kept and 'YYYY' became '2024'
C18_Witness ==
    /\ ppc = "done"
    /\ folderPath = <<"j", "o", "u", "r", "n", "a", "l", "/", "Y", "Y", "Y", "Y">>
    /\ date = Day_2024_03_05
    /\ resolved = <<"j", "o", "u", "r", "n", "a", "l", "/", "2", "0", "2", "4">>

(***************************************************************************)
(* onload and overrideDailyNoteCommand.  Time is counted in ms and a timer *)
(* is the time left until it is due; a due timer runs before more time     *)
(* passes.  The host registers the 'daily-notes' command and adds the      *)
(* ribbon button when it pleases, once.                                    *)
(***************************************************************************)
\* the count of fruitless polls at which the history stops counting
MaxPolls == 3

\* line 221: the default of settings.maxDays
DefaultMaxDays == 7

\* line 247: setTimeout(checkCommandExists, 100)
PollDelay == 100

\* line 319: setTimeout(() => this.rebindDailyNoteButton(newCallback), 1000)
RebindDelay == 1000

\* the variables of the callback that onload does not touch
cidle == <<today, folder, files, folders, running, pc, newFilePath, idx, oldFile,
           oldFileContent, found, newFileContent, window, destBefore, log>>

\* a history counter, which stops at MaxPolls
Counted(n) == IF n < MaxPolls THEN n + 1 ELSE n

\* line 245: if (!originalCommand)
CommandMissingMutant(cmd) == cmd # "override"
CommandMissing(cmd) == cmd = "absent"

\* lines 243-320: one run of checkCommandExists
checkCommandExists ==
    IF CommandMissing(command)
    THEN /\ pollTimer' = PollDelay
         /\ polls' = Counted(polls)
         /\ UNCHANGED <<command, rebindTimer, installs, rebinds>>
    ELSE /\ command' = "override"
         /\ installs' = Counted(installs)
         /\ rebindTimer' = RebindDelay
         /\ rebinds' = Counted(rebinds)
         /\ pollTimer' = -1
         /\ UNCHANGED polls

\* lines 415-417: loadData() gives the stored maxDays, or nothing (0 here)
loadSettings(stored) == IF stored = 0 THEN maxDays ELSE stored

\* lines 224-234: the settings are loaded; there is no daily-notes plugin and
\* onload returns
OnloadNoPlugin ==
    /\ opc = "loadSettings"
    /\ ~hasDailyNotes
    /\ \E stored \in 0..MaxLookback : maxDays' = loadSettings(stored)
    /\ opc' = "noPlugin"
    /\ UNCHANGED <<hasDailyNotes, command, button, pollTimer, rebindTimer, polls,
                   installs, rebinds, cidle, fvars, pvars>>

\* lines 224-237: the settings are loaded; onload awaits dailyNotesPlugin.load()
OnloadAwaitPlugin ==
    /\ opc = "loadSettings"
    /\ hasDailyNotes
    /\ \E stored \in 0..MaxLookback : maxDays' = loadSettings(stored)
    /\ opc' = "loadPlugin"
    /\ UNCHANGED <<hasDailyNotes, command, button, pollTimer, rebindTimer, polls,
                   installs, rebinds, cidle, fvars, pvars>>

\* lines 237-239 and 322: the plugin is loaded; overrideDailyNoteCommand runs
\* checkCommandExists at once
OnloadOverride ==
    /\ opc = "loadPlugin"
    /\ opc' = "overriding"
    /\ checkCommandExists
    /\ UNCHANGED <<hasDailyNotes, button, maxDays, cidle, fvars, pvars>>

\* line 247: the timer is due and runs checkCommandExists
PollFire ==
    /\ pollTimer = 0
    /\ checkCommandExists
    /\ UNCHANGED <<opc, hasDailyNotes, button, maxDays, cidle, fvars, pvars>>

\* lines 319 and 361-373: the timer is due and runs rebindDailyNoteButton
RebindFire ==
    /\ rebindTimer = 0
    /\ rebindTimer' = -1
    /\ button' = IF button = "absent" THEN "absent" ELSE "override"
    /\ UNCHANGED <<opc, hasDailyNotes, command, pollTimer, polls, installs, rebinds,
                   maxDays, cidle, fvars, pvars>>

\* time passes until the next timer is due
Tick ==
    /\ pollTimer # 0
    /\ rebindTimer # 0
    /\ pollTimer > 0 \/ rebindTimer > 0
    /\ LET dt == Least({t \in {pollTimer, rebindTimer} : t > 0})
       IN /\ pollTimer' = IF pollTimer > 0 THEN pollTimer - dt ELSE pollTimer
          /\ rebindTimer' = IF rebindTimer > 0 THEN rebindTimer - dt ELSE rebindTimer
    /\ UNCHANGED <<opc, hasDailyNotes, command, button, polls, installs, rebinds,
                   maxDays, cidle, fvars, pvars>>

\* the host registers its 'daily-notes' command
HostRegister ==
    /\ command = "absent"
    /\ command' = "host"
    /\ UNCHANGED <<opc, hasDailyNotes, button, pollTimer, rebindTimer, polls,
                   installs, rebinds, maxDays, cidle, fvars, pvars>>

\* the host adds the ribbon button, bound to its own callback
HostAddButton ==
    /\ button = "absent"
    /\ button' = "host"
    /\ UNCHANGED <<opc, hasDailyNotes, command, pollTimer, rebindTimer, polls,
                   installs, rebinds, maxDays, cidle, fvars, pvars>>

\* lines 217-224: onload has set the default settings and awaits loadSettings
InitOverride ==
    /\ opc = "loadSettings"
    /\ hasDailyNotes \in BOOLEAN
    /\ command \in {"absent", "host"}
    /\ button \in {"absent", "host"}
    /\ pollTimer = -1
    /\ rebindTimer = -1
    /\ polls = 0
    /\ installs = 0
    /\ rebinds = 0
    /\ maxDays = DefaultMaxDays
    /\ today = 0
    /\ folder = <<>>
    /\ files = <<>>
    /\ folders = {}
    /\ running = "none"
    /\ pc = <<>>
    /\ newFilePath = <<>>
    /\ idx = <<>>
    /\ oldFile = <<>>
    /\ oldFileContent = <<>>
    /\ found = <<>>
    /\ newFileContent = <<>>
    /\ window = <<>>
    /\ destBefore = <<>>
    /\ log = <<>>
    /\ FilterOff
    /\ PathOff

NextOverride ==
    \/ OnloadNoPlugin
    \/ OnloadAwaitPlugin
    \/ OnloadOverride
    \/ PollFire
    \/ RebindFire
    \/ Tick
    \/ HostRegister
    \/ HostAddButton

\* Timers set with setTimeout run when they are due, and time passes: the
\* event loop of the host is idle between the events of the model.
SpecOverride ==
    /\ InitOverride
    /\ [][NextOverride]_vars
    /\ WF_vars(Tick)
    /\ WF_vars(PollFire)
    /\ WF_vars(RebindFire)

\* overrideDailyNoteCommand has been called
Started == opc = "overriding"

\* C20: while the command is absent its callback is not assigned; from the
\* call of overrideDailyNoteCommand until the override is installed a poll
\* is pending, due in at most 100 ms; the override is installed at most
\* once, and once it is installed no poll is pending and exactly one rebind
\* of the button has been scheduled; and when the command is registered,
\* the override is eventually installed.
C20_OverridePolling ==
    /\ [][command = "absent" => (command' # "override" /\ installs' = installs)]_vars
    /\ [](~Started => (installs = 0 /\ pollTimer = -1))
    /\ []((Started /\ installs = 0) => pollTimer \in 0..PollDelay)
    /\ [](installs <= 1 /\ rebinds = installs)
    /\ [](installs = 1 => (command = "override" /\ pollTimer = -1))
    /\ ((Started /\ command # "absent") ~> (installs = 1))

\* the override was installed after two polls that found no command, and
\* the one rebind scheduled has bound the button to the new callback
C20_Witness ==
    /\ Started
    /\ polls >= 2
    /\ installs = 1
    /\ command = "override"
    /\ rebinds = 1
    /\ rebindTimer = -1
    /\ pollTimer = -1
    /\ button = "override"
====
